---------------------------- MODULE Spec2Model ----------------------------
(***************************************************************************)
(* A model of headerize.py: comment-style lookup, header synthesis, the    *)
(* in-place header insertion, the layered configuration resolver and the   *)
(* driver's exclusion filter.                                              *)
(*                                                                         *)
(* Text is modelled as sequences of one-character strings, so that line    *)
(* splitting, substring search, case folding and glob matching are         *)
(* computed the way the Python code computes them.  A path is a sequence   *)
(* of segment names, each a text.                                          *)
(***************************************************************************)
EXTENDS Integers, Sequences, FiniteSets, TLC

VARIABLES
    fs,           \* source files on disk: path -> content
    today,        \* the clock read by date.today()
    globalCfg,    \* ~/.config/headerize/config.json, or None when absent
    repoCfg,      \* directory -> its .headerize.config, or None when absent
    gitignore,    \* directory -> content of its .gitignore, or None
    copyrightMd,  \* directory -> content of its COPYRIGHT.md, or None
    gitDirs,      \* directories that contain a .git directory
    calls,        \* the process_file calls made by main: <<mode, path>>
    last,         \* what the last operation was given and what it returned
    out           \* the header text last returned or printed

vars == <<fs, today, globalCfg, repoCfg, gitignore, copyrightMd, gitDirs,
          calls, last, out>>

----------------------------------------------------------------------------
(* Python values and string primitives                                     *)

\* Python's None; no text equals it, because texts hold single characters.
None == <<"None">>

\* str.lower() on one character
LowerChar(c) ==
    CASE c = "A" -> "a"
      [] c = "B" -> "b"
      [] c = "C" -> "c"
      [] c = "D" -> "d"
      [] c = "E" -> "e"
      [] c = "F" -> "f"
      [] c = "G" -> "g"
      [] c = "H" -> "h"
      [] c = "I" -> "i"
      [] c = "J" -> "j"
      [] c = "K" -> "k"
      [] c = "L" -> "l"
      [] c = "M" -> "m"
      [] c = "N" -> "n"
      [] c = "O" -> "o"
      [] c = "P" -> "p"
      [] c = "Q" -> "q"
      [] c = "R" -> "r"
      [] c = "S" -> "s"
      [] c = "T" -> "t"
      [] c = "U" -> "u"
      [] c = "V" -> "v"
      [] c = "W" -> "w"
      [] c = "X" -> "x"
      [] c = "Y" -> "y"
      [] c = "Z" -> "z"
      [] OTHER -> c

\* str.upper() on one character
UpperChar(c) ==
    CASE c = "a" -> "A"
      [] c = "b" -> "B"
      [] c = "c" -> "C"
      [] c = "d" -> "D"
      [] c = "e" -> "E"
      [] c = "f" -> "F"
      [] c = "g" -> "G"
      [] c = "h" -> "H"
      [] c = "i" -> "I"
      [] c = "j" -> "J"
      [] c = "k" -> "K"
      [] c = "l" -> "L"
      [] c = "m" -> "M"
      [] c = "n" -> "N"
      [] c = "o" -> "O"
      [] c = "p" -> "P"
      [] c = "q" -> "Q"
      [] c = "r" -> "R"
      [] c = "s" -> "S"
      [] c = "t" -> "T"
      [] c = "u" -> "U"
      [] c = "v" -> "V"
      [] c = "w" -> "W"
      [] c = "x" -> "X"
      [] c = "y" -> "Y"
      [] c = "z" -> "Z"
      [] OTHER -> c

\* str.lower()
Lower(s) == [i \in 1..Len(s) |-> LowerChar(s[i])]

\* str.upper()
Upper(s) == [i \in 1..Len(s) |-> UpperChar(s[i])]

\* needle in hay
Contains(hay, needle) ==
    \E i \in 1..(Len(hay) - Len(needle) + 1) :
        SubSeq(hay, i, i + Len(needle) - 1) = needle

\* str.startswith
StartsWith(s, prefix) ==
    /\ Len(s) >= Len(prefix)
    /\ SubSeq(s, 1, Len(prefix)) = prefix

\* str.count of a one-character string
Count(s, c) == Cardinality({i \in 1..Len(s) : s[i] = c})

IsSpace(c) == c \in {" ", "\t", "\n", "\r"}

\* str.strip()
Strip(s) ==
    LET keep == {i \in 1..Len(s) : ~IsSpace(s[i])}
    IN  IF keep = {} THEN <<>>
        ELSE LET lo == CHOOSE i \in keep : \A j \in keep : i <= j
                 hi == CHOOSE i \in keep : \A j \in keep : j <= i
             IN  SubSeq(s, lo, hi)

\* "".join(parts), which is also what file.writelines(parts) writes
RECURSIVE Concat(_)
Concat(parts) ==
    IF parts = <<>> THEN <<>> ELSE Head(parts) \o Concat(Tail(parts))

\* sep.join(parts)
RECURSIVE Join(_, _)
Join(sep, parts) ==
    IF parts = <<>> THEN <<>>
    ELSE IF Len(parts) = 1 THEN Head(parts)
    ELSE Head(parts) \o sep \o Join(sep, Tail(parts))

\* str(n) for n >= 0
RECURSIVE IntToStr(_)
IntToStr(n) ==
    LET digit == <<"0", "1", "2", "3", "4", "5", "6", "7", "8", "9">>
    IN  IF n < 10 THEN <<digit[n + 1]>>
        ELSE IntToStr(n \div 10) \o <<digit[(n % 10) + 1]>>

\* zero padding to a width, as in date.isoformat()
RECURSIVE ZeroPad(_, _)
ZeroPad(s, width) == IF Len(s) >= width THEN s ELSE ZeroPad(<<"0">> \o s, width)

\* date.today().isoformat()
isoformat(d) ==
    ZeroPad(IntToStr(d.year), 4) \o <<"-">> \o ZeroPad(IntToStr(d.month), 2)
        \o <<"-">> \o ZeroPad(IntToStr(d.day), 2)

\* Text-mode reading: "\r\n" and a lone "\r" are read as "\n".
RECURSIVE UniversalNewlines(_, _)
UniversalNewlines(s, i) ==
    IF i > Len(s) THEN <<>>
    ELSE IF \A j \in i..Len(s) : s[j] # "\r" THEN SubSeq(s, i, Len(s))
    ELSE LET r == CHOOSE j \in i..Len(s) :
                      /\ s[j] = "\r"
                      /\ \A k \in i..(j - 1) : s[k] # "\r"
         IN  SubSeq(s, i, r - 1) \o <<"\n">>
                 \o UniversalNewlines(s,
                        IF r < Len(s) /\ s[r + 1] = "\n" THEN r + 2 ELSE r + 1)

\* Splitting into lines, each keeping its "\n"
RECURSIVE SplitLines(_, _)
SplitLines(s, i) ==
    IF i > Len(s) THEN <<>>
    ELSE LET e == IF \E j \in i..Len(s) : s[j] = "\n"
                  THEN CHOOSE j \in i..Len(s) :
                           /\ s[j] = "\n"
                           /\ \A k \in i..(j - 1) : s[k] # "\n"
                  ELSE Len(s)
         IN  <<SubSeq(s, i, e)>> \o SplitLines(s, e + 1)

\* open(filepath, 'r').readlines()
readlines(content) == SplitLines(UniversalNewlines(content, 1), 1)

\* A file whose bytes do not decode: reading it raises.
Undecodable == <<"Undecodable">>

----------------------------------------------------------------------------
(* Constants of the program                                                *)

REPO_CONFIG_FILE == <<".","h","e","a","d","e","r","i","z","e",".","c","o","n","f","i","g">>

FILE_TYPE_MAP ==
       <<".","p","y">> :> <<<<"#">>, <<"\"","\"","\"">>, <<"\"","\"","\"">>, <<"#","!","/","u","s","r","/","b","i","n","/","e","n","v"," ","p","y","t","h","o","n","3">>>>
    @@ <<".","s","h">> :> <<<<"#">>, <<"#">>, <<"#">>, <<"#","!","/","u","s","r","/","b","i","n","/","e","n","v"," ","b","a","s","h">>>>
    @@ <<".","b","a","s","h">> :> <<<<"#">>, <<"#">>, <<"#">>, <<"#","!","/","u","s","r","/","b","i","n","/","e","n","v"," ","b","a","s","h">>>>
    @@ <<".","c">> :> <<<<"/","/">>, <<"/","*">>, <<"*","/">>, None>>
    @@ <<".","b","s","v">> :> <<<<"/","/">>, <<"/","*">>, <<"*","/">>, None>>
    @@ <<".","r","s">> :> <<<<"/","/">>, <<"/","*">>, <<"*","/">>, None>>
    @@ <<".","c","p","p">> :> <<<<"/","/">>, <<"/","*">>, <<"*","/">>, None>>
    @@ <<".","h">> :> <<<<"/","/">>, <<"/","*">>, <<"*","/">>, None>>
    @@ <<".","h","p","p">> :> <<<<"/","/">>, <<"/","*">>, <<"*","/">>, None>>
    @@ <<".","j","a","v","a">> :> <<<<"/","/">>, <<"/","*">>, <<"*","/">>, None>>
    @@ <<".","c","s">> :> <<<<"/","/">>, <<"/","*">>, <<"*","/">>, None>>
    @@ <<".","g","o">> :> <<<<"/","/">>, <<"/","*">>, <<"*","/">>, None>>
    @@ <<".","j","s">> :> <<<<"/","/">>, <<"/","*">>, <<"*","/">>, None>>
    @@ <<".","t","s">> :> <<<<"/","/">>, <<"/","*">>, <<"*","/">>, None>>
    @@ <<".","y","a","m","l">> :> <<<<"#">>, <<"#">>, <<"#">>, None>>
    @@ <<".","y","m","l">> :> <<<<"#">>, <<"#">>, <<"#">>, None>>

SKIP_FILE_SIGNAL == <<None, None, None, None>>

EXCLUDE_FOLDERS ==
    << <<".","g","i","t">>,
       <<".","s","v","n">>,
       <<".","h","g">>,
       <<"n","o","d","e","_","m","o","d","u","l","e","s">>,
       <<"v","e","n","d","o","r">>,
       <<"t","a","r","g","e","t">>,
       <<"b","u","i","l","d">>,
       <<"d","i","s","t">>,
       <<"b","i","n">>,
       <<"o","u","t">>,
       <<".","i","d","e","a">>,
       <<".","v","s","c","o","d","e">>,
       <<"_","_","p","y","c","a","c","h","e","_","_">>,
       <<"v","e","n","v">>,
       <<".","*">>,
       <<"c","o","v","e","r","a","g","e">>,
       <<"d","o","c","s">> >>

EXCLUDE_FILE_PATTERNS ==
    << <<"*",".","l","o","g">>,
       <<"*",".","d","a","t">>,
       <<"*",".","b","a","k">>,
       <<"*",".","z","i","p">>,
       <<"*",".","r","a","r">>,
       <<"*",".","t","a","r">>,
       <<"*",".","g","z">>,
       <<"*",".","i","m","l">>,
       <<"*",".","s","w","p">>,
       <<"*","~">>,
       <<".","D","S","_","S","t","o","r","e">>,
       <<"T","h","u","m","b","s",".","d","b">>,
       <<".","S","p","o","t","l","i","g","h","t","-","V","1","0","0">>,
       <<"*",".","p","y","c">>,
       <<"*",".","c","l","a","s","s">>,
       <<"*",".","o">>,
       <<"*",".","a">>,
       <<"*",".","s","o">>,
       <<"*",".","d","l","l">>,
       <<"*",".","e","x","e">>,
       <<"*",".","b","i","n">>,
       <<".","*">> >>

AddNewCompany == <<"A","d","d"," ","N","e","w"," ","C","o","m","p","a","n","y">>

ContinueWithoutCompany == <<"C","o","n","t","i","n","u","e"," ","W","i","t","h","o","u","t"," ","C","o","m","p","a","n","y">>

DefaultDescription == <<"A"," ","b","r","i","e","f"," ","d","e","s","c","r","i","p","t","i","o","n"," ","o","f"," ","t","h","e"," ","f","i","l","e","'","s"," ","p","u","r","p","o","s","e",".">>

----------------------------------------------------------------------------
(* Comment-style lookup                                                    *)

\* PurePath.name
Name(path) == IF path = <<>> THEN <<>> ELSE path[Len(path)]

\* PurePath.suffix
Suffix(name) ==
    LET dots == {i \in 1..Len(name) : name[i] = "."}
    IN  IF dots = {} THEN <<>>
        ELSE LET i == CHOOSE d \in dots : \A e \in dots : e <= d
             IN  IF 1 < i /\ i < Len(name) THEN SubSeq(name, i, Len(name))
                 ELSE <<>>

ExtensionlessWhitelist ==
    { <<"R","E","A","D","M","E">>, <<"L","I","C","E","N","S","E">>, <<"I","N","S","T","A","L","L">>, <<"M","A","K","E","F","I","L","E">> }

get_comment_style(filepath) ==
    LET ext == Lower(Suffix(Name(filepath)))
    IN  IF ext = <<>> /\ Count(Name(filepath), ".") = 0
        THEN IF Upper(Name(filepath)) \in ExtensionlessWhitelist
             THEN <<<<"#">>, <<"#">>, <<"#">>, None>>
             ELSE SKIP_FILE_SIGNAL
        ELSE IF ext \in DOMAIN FILE_TYPE_MAP THEN FILE_TYPE_MAP[ext]
             ELSE SKIP_FILE_SIGNAL

----------------------------------------------------------------------------
(* Header synthesis                                                        *)

header_content(config, d, description) ==
    << <<"C","o","p","y","r","i","g","h","t",":"," ">> \o <<"C","o","p","y","r","i","g","h","t"," ","(","c",")"," ">> \o IntToStr(d.year) \o <<" ">>
           \o config.company_name \o <<"."," ","A","l","l"," ","r","i","g","h","t","s"," ","r","e","s","e","r","v","e","d",".">>,
       <<"A","u","t","h","o","r",":"," ">> \o config.author_name \o <<" ", "<">>
           \o config.author_email \o <<">">>,
       <<"C","r","e","a","t","e","d"," ","o","n",":"," ">> \o isoformat(d),
       <<"D","e","s","c","r","i","p","t","i","o","n",":"," ">> \o description >>

\* generate_header with the block form's content lines not indented
generate_header_unpadded(filepath, config, d) ==
    LET style == get_comment_style(filepath)
        line_c == style[1]
        block_start == style[2]
        block_end == style[3]
        content == header_content(config, d, DefaultDescription)
    IN  IF block_start = line_c /\ block_start # None
        THEN Join(<<"\n">>,
                  <<line_c>>
                  \o [i \in 1..Len(content) |-> line_c \o <<" ">> \o content[i]]
                  \o <<line_c>>) \o <<"\n">>
        ELSE IF block_start # None /\ block_end # None
        THEN block_start \o <<"\n">> \o Join(<<"\n">>, content) \o <<"\n">>
                 \o block_end \o <<"\n">>
        ELSE <<"\"","\"","\"","\n">> \o Join(<<"\n">>, content) \o <<"\n","\"","\"","\"","\n">>

generate_header(filepath, config, d) ==
    LET style == get_comment_style(filepath)
        line_c == style[1]
        block_start == style[2]
        block_end == style[3]
        content == header_content(config, d, DefaultDescription)
        padded == [i \in 1..Len(content) |-> <<" ">> \o content[i]]
    IN  IF block_start = line_c /\ block_start # None
        THEN Join(<<"\n">>,
                  <<line_c>>
                  \o [i \in 1..Len(content) |-> line_c \o <<" ">> \o content[i]]
                  \o <<line_c>>) \o <<"\n">>
        ELSE IF block_start # None /\ block_end # None
        THEN block_start \o <<"\n">> \o Join(<<"\n">>, padded) \o <<"\n">>
                 \o block_end \o <<"\n">>
        ELSE <<"\"","\"","\"","\n">> \o Join(<<"\n">>, padded) \o <<"\n","\"","\"","\"","\n">>

----------------------------------------------------------------------------
(* The file mutator                                                        *)

is_file(path) == path \in DOMAIN fs

\* lines[:n]
Take(lines, n) == SubSeq(lines, 1, IF Len(lines) < n THEN Len(lines) ELSE n)

ScanLimit == 10

\* header_found looking at the first line only
header_found_first_line(lines) ==
    \E i \in 1..Len(Take(lines, 1)) :
        Contains(Lower(lines[i]), <<"c","o","p","y","r","i","g","h","t">>)

header_found(lines) ==
    \E i \in 1..Len(Take(lines, ScanLimit)) :
        Contains(Lower(lines[i]), <<"c","o","p","y","r","i","g","h","t">>)

\* The list handed to writelines once the header is known to be missing.
new_content(lines, style, header_block) ==
    LET has_shebang == lines # <<>> /\ StartsWith(lines[1], <<"#", "!">>)
        content_start_index == IF has_shebang THEN 1 ELSE 0
        shebang_template == style[4]
    IN  IF ~has_shebang /\ shebang_template # None /\ shebang_template # <<>>
        THEN <<shebang_template \o <<"\n">>, header_block>> \o lines
        ELSE SubSeq(lines, 1, content_start_index) \o <<header_block>>
                 \o SubSeq(lines, content_start_index + 1, Len(lines))

\* What process_file does to the file system: the outcome and the new fs.
process_file(files, filepath, config, d) ==
    IF filepath \notin DOMAIN files
    THEN [outcome |-> "not_a_file", files |-> files]
    ELSE IF get_comment_style(filepath) = SKIP_FILE_SIGNAL
    THEN [outcome |-> "unsupported", files |-> files]
    ELSE IF files[filepath] = Undecodable
    THEN [outcome |-> "unreadable", files |-> files]
    ELSE LET lines == readlines(files[filepath])
         IN  IF header_found(lines)
             THEN [outcome |-> "skipped", files |-> files]
             ELSE [outcome |-> "inserted",
                   files |-> [files EXCEPT ![filepath] =
                       Concat(new_content(lines, get_comment_style(filepath),
                           generate_header(filepath, config, d)))]]

----------------------------------------------------------------------------
(* Bounded inputs                                                          *)

Dates ==
    { [year |-> 2024, month |-> 1, day |-> 1],
      [year |-> 2025, month |-> 12, day |-> 31] }

\* Configuration records handed to process_file and generate_header
Configs ==
    { [company_name |-> <<"A","c","m","e">>, author_name |-> <<"J","o">>,
       author_email |-> <<"j","@","a">>],
      [company_name |-> <<>>, author_name |-> <<"A","l"," ","B">>,
       author_email |-> <<>>] }

\* What source files are built from: a shebang, the line terminators (a
\* "\r" followed by a "\n" is one terminator), the word the scan looks for,
\* and nine whole lines.
Pieces ==
    { <<"#","!","s">>, <<"\n">>, <<"\r">>, <<"C","o","p","y","R","i","g","h","t">>,
      <<"a","\n","b","\n","c","\n","d","\n","e","\n","f","\n","g","\n","h","\n","i","\n">> }

MaxPieces == 3

RECURSIVE ContentsOf(_)
ContentsOf(n) ==
    IF n = 0 THEN {<<>>}
    ELSE ContentsOf(n - 1)
             \cup {c \o p : c \in ContentsOf(n - 1), p \in Pieces}

Contents == ContentsOf(MaxPieces) \cup {Undecodable}

\* One file of each comment style, one whitelisted name, one unsupported.
MutatorPaths ==
    { <<<<"a",".","p","y">>>>, <<<<"b",".","s","h">>>>, <<<<"c",".","c">>>>, <<<<"d",".","Y","M","L">>>>,
      <<<<"M","a","k","e","f","i","l","e">>>>, <<<<"n",".","t","x","t">>>> }

MissingPath == <<<<"g","o","n","e",".","p","y">>>>

NoDirs == [d \in {} |-> None]

----------------------------------------------------------------------------
(* SpecMutator: process_file applied, repeatedly, to one file              *)

InitMutator ==
    /\ \E p \in MutatorPaths, c \in Contents : fs = (p :> c)
    /\ today \in Dates
    /\ globalCfg = None
    /\ repoCfg = NoDirs
    /\ gitignore = NoDirs
    /\ copyrightMd = NoDirs
    /\ gitDirs = {}
    /\ calls = {}
    /\ last = [op |-> "init"]
    /\ out = <<>>

\* One call process_file(filepath, config)
ProcessFile(filepath, config) ==
    LET r == process_file(fs, filepath, config, today)
    IN  /\ fs' = r.files
        /\ last' = [op |-> "process_file",
                    path |-> filepath,
                    config |-> config,
                    outcome |-> r.outcome,
                    on |-> today,
                    before |-> IF filepath \in DOMAIN fs THEN fs[filepath]
                               ELSE None,
                    previous |-> IF /\ last.op = "process_file"
                                    /\ last.path = filepath
                                    /\ last.config = config
                                 THEN last.outcome ELSE "none"]
        /\ UNCHANGED <<today, globalCfg, repoCfg, gitignore, copyrightMd,
                       gitDirs, calls, out>>

Later(d, e) ==
    \/ d.year < e.year
    \/ d.year = e.year /\ d.month < e.month
    \/ d.year = e.year /\ d.month = e.month /\ d.day < e.day

\* The calendar day changes between two runs.
DayPasses ==
    /\ \E d \in Dates : Later(today, d) /\ today' = d
    /\ UNCHANGED <<fs, globalCfg, repoCfg, gitignore, copyrightMd, gitDirs,
                   calls, last, out>>

NextMutator ==
    \/ \E p \in DOMAIN fs \cup {MissingPath}, c \in Configs :
           ProcessFile(p, c)
    \/ DayPasses

SpecMutator == InitMutator /\ [][NextMutator]_vars

----------------------------------------------------------------------------
(* Properties of the file mutator                                          *)

Supported(filepath) == get_comment_style(filepath) # SKIP_FILE_SIGNAL

\* The last step was process_file on a readable file of a supported type
\* whose first ten lines did not mention "copyright".
Headerless ==
    /\ last.op = "process_file"
    /\ last.before # None
    /\ last.before # Undecodable
    /\ Supported(last.path)
    /\ ~header_found(readlines(last.before))

LastHeader == generate_header(last.path, last.config, last.on)

\* C1: running process_file again on the same file with the same
\* configuration changes nothing: the second run never inserts, the file
\* keeps the content the first run left, and after a run that inserted or
\* skipped, the second run skips because the scan finds "copyright".
C1_Idempotent ==
    (last.op = "process_file" /\ last.previous # "none") =>
        /\ last.outcome # "inserted"
        /\ last.outcome = last.previous \/ last.previous = "inserted"
        /\ last.previous \in {"inserted", "skipped"} => last.outcome = "skipped"
        /\ last.path \in DOMAIN fs => fs[last.path] = last.before

\* A second run right after a run that inserted a header below a shebang
\* line the file already had.
C1_Witness ==
    /\ last.op = "process_file"
    /\ last.previous = "inserted"
    /\ last.outcome = "skipped"
    /\ StartsWith(fs[last.path], <<"#","!","s">>)

\* C2: when the first line begins with "#!" and no header is found, after
\* process_file the first line is the original first line, the header block
\* starts on the next line, and the rest of the file follows; no second
\* shebang line is added.
C2_ShebangPreserved ==
    (Headerless /\ StartsWith(last.before, <<"#", "!">>)) =>
        LET old == SplitLines(last.before, 1)
            new == SplitLines(fs[last.path], 1)
        IN  /\ new[1] = old[1]
            /\ fs[last.path] =
                   old[1] \o LastHeader
                       \o SubSeq(last.before, Len(old[1]) + 1, Len(last.before))
            /\ ~StartsWith(new[2], <<"#", "!">>)

\* C3: when the file has no shebang and no header is found, the rewritten
\* file is the shebang template line (if the style declares one), the header
\* block, and then the original content, unchanged.
C3_LayoutPreserved ==
    (Headerless /\ ~StartsWith(last.before, <<"#", "!">>)) =>
        LET template == get_comment_style(last.path)[4]
        IN  fs[last.path] =
                (IF template # None THEN template \o <<"\n">> ELSE <<>>)
                    \o LastHeader \o last.before

----------------------------------------------------------------------------
(* SpecHeader: generate_header applied to every kind of file name          *)

HeaderConfigs ==
    [ company_name : { <<"A","c","m","e">>, <<"B"," ","&"," ","C">>, <<>> },
      author_name : { <<"J","a","n","e"," ","D","o","e">>, <<>> },
      author_email : { <<"j","a","n","e","@","a","c","m","e",".","c","o","m">>, <<>> } ]

\* Every comment style of the table, the whitelist, and names for which
\* get_comment_style returns SKIP_FILE_SIGNAL.
HeaderPaths ==
    { <<<<"a",".","p","y">>>>, <<<<"b",".","s","h">>>>, <<<<"c",".","b","a","s","h">>>>, <<<<"d",".","c">>>>,
      <<<<"e",".","G","O">>>>, <<<<"f",".","y","a","m","l">>>>, <<<<"g",".","y","m","l">>>>,
      <<<<"s","r","c">>, <<"h",".","t","s">>>>, <<<<"l","i","c","e","n","s","e">>>>, <<<<"n",".","t","x","t">>>>,
      <<<<"n","o","t","e","s">>>>, <<<<".","b","a","s","h","r","c">>>>, <<<<"t","r","a","i","l","i","n","g",".">>>> }

InitHeader ==
    /\ fs = [p \in {} |-> <<>>]
    /\ today \in Dates
    /\ globalCfg = None
    /\ repoCfg = NoDirs
    /\ gitignore = NoDirs
    /\ copyrightMd = NoDirs
    /\ gitDirs = {}
    /\ calls = {}
    /\ last = [op |-> "init"]
    /\ out = <<>>

\* One call generate_header(filepath, config)
GenerateHeader(filepath, config) ==
    /\ out' = generate_header(filepath, config, today)
    /\ last' = [op |-> "generate_header", path |-> filepath,
                config |-> config, on |-> today]
    /\ UNCHANGED <<fs, today, globalCfg, repoCfg, gitignore, copyrightMd,
                   gitDirs, calls>>

NextHeader ==
    \/ \E p \in HeaderPaths, c \in HeaderConfigs : GenerateHeader(p, c)
    \/ DayPasses

SpecHeader == InitHeader /\ [][NextHeader]_vars

\* C9: generate_header returns one newline-terminated text of six lines with
\* no blank line at the end: copyright, author, creation date and
\* description, in that order, between a bare comment prefix line before and
\* after (each content line prefixed by the prefix and a space) when
\* blockStart equals lineComment, and otherwise between blockStart and
\* blockEnd on lines of their own (each content line prefixed by one space);
\* the unsupported sentinel gets the triple-quote block form.
C9_HeaderShape ==
    last.op = "generate_header" =>
        LET style == get_comment_style(last.path)
            lines == SplitLines(out, 1)
            content == header_content(last.config, last.on, DefaultDescription)
            quotes == <<"\"", "\"", "\"">>
            line_style == style[1] # None /\ style[2] = style[1]
            first == IF style = SKIP_FILE_SIGNAL THEN quotes ELSE style[2]
            final == IF style = SKIP_FILE_SIGNAL THEN quotes
                     ELSE IF line_style THEN style[1] ELSE style[3]
            prefix == IF line_style THEN style[1] \o <<" ">> ELSE <<" ">>
        IN  /\ Len(out) >= 2
            /\ out[Len(out)] = "\n"
            /\ out[Len(out) - 1] # "\n"
            /\ Len(lines) = 6
            /\ lines[1] = first \o <<"\n">>
            /\ lines[6] = final \o <<"\n">>
            /\ \A i \in 1..4 : lines[i + 1] = prefix \o content[i] \o <<"\n">>
            /\ StartsWith(lines[2], prefix \o <<"C","o","p","y","r","i","g","h","t",":"," ","C","o","p","y","r","i","g","h","t"," ","(","c",")"," ">>)
            /\ Contains(lines[2], last.config.company_name
                                      \o <<"."," ","A","l","l"," ","r","i","g","h","t","s"," ","r","e","s","e","r","v","e","d",".">>)
            /\ StartsWith(lines[3], prefix \o <<"A","u","t","h","o","r",":"," ">>
                                        \o last.config.author_name)
            /\ StartsWith(lines[4], prefix \o <<"C","r","e","a","t","e","d"," ","o","n",":"," ">>)
            /\ StartsWith(lines[5], prefix \o <<"D","e","s","c","r","i","p","t","i","o","n",":"," ">>)

\* A header was generated for a name with no comment style at all.
C9_Witness ==
    /\ last.op = "generate_header"
    /\ get_comment_style(last.path) = SKIP_FILE_SIGNAL
    /\ StartsWith(out, <<"\"", "\"", "\"", "\n">>)

----------------------------------------------------------------------------
(* The configuration resolver                                              *)

\* A JSON file that does not exist, or a dict that was not produced
NoRecord == [none |-> TRUE]

\* find_git_root's None
NoPath == <<None>>

\* Path.parent; the filesystem root <<>> is its own parent
Parent(path) == IF path = <<>> THEN <<>> ELSE SubSeq(path, 1, Len(path) - 1)

\* filepath.parent, resolved against the current directory.  A target is
\* the current directory and the path typed on the command line.
StartDir(target) == target.cwd \o Parent(target.rel)

\* find_git_root with the search continued to the outermost marker
RECURSIVE find_git_root_topmost(_)
find_git_root_topmost(current) ==
    IF current = Parent(current) THEN NoPath
    ELSE LET above == find_git_root_topmost(Parent(current))
         IN  IF above # NoPath THEN above
             ELSE IF current \in gitDirs THEN current
             ELSE NoPath

RECURSIVE find_git_root(_)
find_git_root(current) ==
    IF current = Parent(current) THEN NoPath
    ELSE IF current \in gitDirs THEN current
    ELSE find_git_root(Parent(current))

\* Path.exists() for a text file
exists(content) == content # None

\* Path.exists() for a JSON configuration file
config_exists(config) == config # NoRecord

_init_global_config(ans) ==
    LET company_name == Strip(ans.company)
    IN  [default_company |-> company_name,
         profiles |-> (company_name :>
             [company_name |-> company_name,
              default_author_name |-> Strip(ans.author),
              default_author_email |-> Strip(ans.email)])]

\* The record built from a stored profile
profile_record(profile) ==
    [company_name |-> profile.company_name,
     author_name |-> profile.default_author_name,
     author_email |-> profile.default_author_email]

\* input(...) or default
OrDefault(typed, default) == IF typed # <<>> THEN typed ELSE default

\* The menu of _init_repo_config
company_options(global_config) ==
    DOMAIN global_config.profiles \cup {AddNewCompany, ContinueWithoutCompany}

\* persists without the early return
persists_always(selected_key) == TRUE

\* Whether _init_repo_config goes on to its saving logic: the
\* "Continue Without Company" branch returns before it.
persists(selected_key) == selected_key # ContinueWithoutCompany

\* The repo_config dict of _init_repo_config, by branch
repo_config_of(global_config, ans) ==
    LET profiles == global_config.profiles
    IN  IF ans.selected_key = ContinueWithoutCompany
        THEN LET default_profile == profiles[global_config.default_company]
             IN  [company_name |-> Strip(ans.company),
                  author_name |-> OrDefault(ans.author,
                                     default_profile.default_author_name),
                  author_email |-> OrDefault(ans.email,
                                     default_profile.default_author_email)]
        ELSE IF ans.selected_key = AddNewCompany
        THEN [company_name |-> Strip(ans.company),
              author_name |-> Strip(ans.author),
              author_email |-> Strip(ans.email)]
        ELSE profile_record(profiles[ans.selected_key])

\* The global configuration after _init_repo_config, in memory and on disk
global_config_after(global_config, ans) ==
    IF ans.selected_key # ContinueWithoutCompany
           /\ ans.selected_key = AddNewCompany
    THEN LET new_company_name == Strip(ans.company)
         IN  [global_config EXCEPT !.profiles =
                 (new_company_name :>
                     [company_name |-> new_company_name,
                      default_author_name |-> Strip(ans.author),
                      default_author_email |-> Strip(ans.email)]) @@ @]
    ELSE global_config

IgnoreEntry ==
    <<"\n","#"," ","I","g","n","o","r","e"," ","h","e","a","d","e","r","i","z","e"," ","p","r","i","v","a","t","e"," ","c","o","n","f","i","g","\n">> \o REPO_CONFIG_FILE \o <<"\n">>

\* The .gitignore of the root after the saving logic
gitignore_after(content) ==
    IF exists(content) /\ ~Contains(content, REPO_CONFIG_FILE)
    THEN content \o IgnoreEntry
    ELSE content

\* The COPYRIGHT.md of the root after the saving logic
copyright_md_after(content, repo_config, d) ==
    IF ~exists(content)
    THEN <<"#"," ","C","o","p","y","r","i","g","h","t"," ","N","o","t","i","c","e","\n","\n">> \o <<"C","o","p","y","r","i","g","h","t"," ","(","c",")"," ">> \o IntToStr(d.year) \o <<" ">>
             \o repo_config.company_name \o <<"."," ","A","l","l"," ","r","i","g","h","t","s"," ","r","e","s","e","r","v","e","d",".">>
             \o <<"\n">>
    ELSE content

\* _init_repo_config, as the values it returns and leaves on disk
_init_repo_config(git_root, global_config, ans) ==
    LET repo_config == repo_config_of(global_config, ans)
    IN  IF persists(ans.selected_key)
        THEN [ret |-> repo_config,
              global |-> global_config_after(global_config, ans),
              repo |-> repo_config,
              ignore |-> gitignore_after(gitignore[git_root]),
              notice |-> copyright_md_after(copyrightMd[git_root],
                                            repo_config, today)]
        ELSE [ret |-> repo_config,
              global |-> global_config,
              repo |-> repoCfg[git_root],
              ignore |-> gitignore[git_root],
              notice |-> copyrightMd[git_root]]

\* needs_bootstrap without the test for an existing file
needs_bootstrap_always(git_root) == git_root # NoPath

\* get_config runs the repository bootstrap for this root
needs_bootstrap(git_root) == git_root # NoPath /\ ~config_exists(repoCfg[git_root])

EOFError == [error |-> "EOFError"]

\* The name of the branch _init_repo_config took
Branch(ans) ==
    IF ans.selected_key = ContinueWithoutCompany THEN "continue_without"
    ELSE IF ans.selected_key = AddNewCompany THEN "add_new"
    ELSE "existing"

----------------------------------------------------------------------------
(* Bounded inputs of the resolver                                          *)

Outer == <<<<"w">>>>
Inner == <<<<"w">>, <<"s","u","b">>>>
InnerSrc == <<<<"w">>, <<"s","u","b">>, <<"s","r","c">>>>
Elsewhere == <<<<"o">>>>

Dirs == {<<>>, Outer, Inner, InnerSrc, Elsewhere}

\* Which directories hold a .git directory: nested repositories, and a
\* marker in the filesystem root.
GitLayouts == { {Outer, Inner}, {<<>>, Outer} }

Targets ==
    { [cwd |-> Outer, rel |-> <<>>],
      [cwd |-> Outer, rel |-> <<<<"s","u","b">>>>],
      [cwd |-> Outer, rel |-> <<<<"s","u","b">>, <<"s","r","c">>, <<"a",".","p","y">>>>],
      [cwd |-> Inner, rel |-> <<<<"b",".","c">>>>],
      [cwd |-> Elsewhere, rel |-> <<<<"c",".","s","h">>>>],
      [cwd |-> <<>>, rel |-> <<<<"o">>>>] }

IgnoreFiles == { None, <<"*",".","l","o","g","\n">>, <<"/",".","h","e","a","d","e","r","i","z","e",".","c","o","n","f","i","g","\n">> }

NoticeFiles == { None, <<"m","i","n","e","\n">> }

NoInput == [eof |-> FALSE]

EndOfInput == [eof |-> TRUE]

\* What is typed at the prompts of _init_global_config
GlobalInputs ==
    {EndOfInput} \cup
    { [eof |-> FALSE, company |-> c, author |-> <<"J","o">>,
       email |-> <<"j","@","a">>] : c \in { <<"A","c","m","e">>, <<" ","B","o","l","t"," ">> } }

\* What is typed at the prompts of _init_repo_config: a menu entry, and for
\* the two entries that prompt further, the answers.
RepoInputs(global_config) ==
    {EndOfInput}
    \cup { [eof |-> FALSE, selected_key |-> k, company |-> <<>>,
            author |-> <<>>, email |-> <<>>] :
               k \in company_options(global_config)
                         \ {AddNewCompany, ContinueWithoutCompany} }
    \cup { [eof |-> FALSE, selected_key |-> AddNewCompany, company |-> c,
            author |-> a, email |-> <<" ","j","@","a"," ">>] :
               c \in { <<"A","c","m","e">>, <<"B","o","l","t"," ">> }, a \in { <<"J","o">>, <<>> } }
    \cup { [eof |-> FALSE, selected_key |-> ContinueWithoutCompany,
            company |-> <<" ","C","o","r","d">>, author |-> a, email |-> e] :
               a \in { <<"A","l">>, <<>> }, e \in { <<"a","l","@","c">>, <<>> } }

----------------------------------------------------------------------------
(* get_config as a function of the disk and of what is typed               *)

\* The global configuration get_config works with
loaded_global_config(gin) ==
    IF config_exists(globalCfg) THEN globalCfg ELSE _init_global_config(gin)

\* What get_config returns and leaves on disk.  gin is what is typed at the
\* prompts of _init_global_config and ans at those of _init_repo_config;
\* end of input at a prompt raises EOFError out of get_config.
get_config(target, gin, ans) ==
    LET unchanged == [global |-> globalCfg, repo |-> repoCfg,
                      ignore |-> gitignore, notice |-> copyrightMd]
    IN  IF gin.eof
        THEN unchanged @@ [ret |-> EOFError, resolved |-> FALSE,
                           root |-> NoPath, bootstrap |-> "none",
                           global_in |-> globalCfg]
        ELSE
        LET global_config == loaded_global_config(gin)
            git_root == find_git_root(StartDir(target))
            found == [resolved |-> TRUE, root |-> git_root,
                      global_in |-> global_config]
        IN  IF needs_bootstrap(git_root)
            THEN IF ans.eof
                 THEN found @@ [ret |-> EOFError, bootstrap |-> "eof",
                                global |-> global_config] @@ unchanged
                 ELSE LET r == _init_repo_config(git_root, global_config, ans)
                      IN  found @@
                          [ret |-> r.ret,
                           bootstrap |-> Branch(ans),
                           global |-> r.global,
                           repo |-> [repoCfg EXCEPT ![git_root] = r.repo],
                           ignore |-> [gitignore EXCEPT ![git_root] = r.ignore],
                           notice |-> [copyrightMd EXCEPT
                                          ![git_root] = r.notice]]
            ELSE found @@
                 [ret |-> IF git_root # NoPath THEN repoCfg[git_root]
                          ELSE profile_record(global_config.profiles[
                                   global_config.default_company]),
                  bootstrap |-> "none",
                  global |-> global_config] @@ unchanged

\* The prompts a call runs into, and the answers tried at each
GlobalPrompts == IF config_exists(globalCfg) THEN {NoInput} ELSE GlobalInputs

RepoPrompts(target, gin) ==
    IF ~gin.eof /\ needs_bootstrap(find_git_root(StartDir(target)))
    THEN RepoInputs(loaded_global_config(gin))
    ELSE {NoInput}

----------------------------------------------------------------------------
(* Spec: get_config called again and again, from any directory             *)

Init ==
    /\ fs = [p \in {} |-> <<>>]
    /\ today \in {d \in Dates : d.year = 2024}
    /\ globalCfg = NoRecord
    /\ repoCfg = [d \in Dirs |-> NoRecord]
    /\ gitignore \in [Dirs -> IgnoreFiles]
    /\ \A d \in Dirs \ {Outer, Inner} : gitignore[d] = None
    /\ copyrightMd \in [Dirs -> NoticeFiles]
    /\ \A d \in Dirs \ {Outer} : copyrightMd[d] = None
    /\ gitDirs \in GitLayouts
    /\ calls = {}
    /\ last = [op |-> "init"]
    /\ out = <<>>

\* One call get_config(target), with what the user types if it prompts
GetConfig(target) ==
    \E gin \in GlobalPrompts : \E ans \in RepoPrompts(target, gin) :
        LET r == get_config(target, gin, ans)
        IN  /\ globalCfg' = r.global
            /\ repoCfg' = r.repo
            /\ gitignore' = r.ignore
            /\ copyrightMd' = r.notice
            /\ last' = [op |-> "get_config", start |-> StartDir(target),
                        resolved |-> r.resolved, root |-> r.root,
                        ret |-> r.ret, bootstrap |-> r.bootstrap,
                        global_in |-> r.global_in]
            /\ UNCHANGED <<fs, today, gitDirs, calls, out>>

Next == \E t \in Targets : GetConfig(t)

Spec == Init /\ [][Next]_vars

----------------------------------------------------------------------------
(* Properties of the configuration resolver                                *)

IsPrefix(d, path) == Len(d) <= Len(path) /\ SubSeq(path, 1, Len(d)) = d

ConfigFields == {"company_name", "author_name", "author_email"}

\* The last step was a get_config call that ran the repository bootstrap
\* and got past its prompts.
Bootstrapped(l) ==
    /\ l.op = "get_config"
    /\ l.bootstrap \in {"existing", "add_new", "continue_without"}

\* C4: once a repository root holds a RepoConfig, that file never changes
\* again, and every get_config call that resolves to this root returns the
\* stored record, runs no repository bootstrap, and leaves GlobalConfig, the
\* ignore file and the notice file as they were.
C4_RepoConfigReused ==
    [][\A d \in Dirs : config_exists(repoCfg[d]) =>
           /\ repoCfg'[d] = repoCfg[d]
           /\ (last'.op = "get_config" /\ last'.root = d) =>
                  /\ last'.ret = repoCfg[d]
                  /\ last'.bootstrap = "none"
                  /\ globalCfg' = globalCfg
                  /\ gitignore' = gitignore
                  /\ copyrightMd' = copyrightMd]_vars

\* A call answered from the RepoConfig stored at its root.
C4_Witness ==
    /\ last.op = "get_config"
    /\ last.root # NoPath
    /\ last.bootstrap = "none"
    /\ config_exists(repoCfg[last.root])
    /\ last.ret = repoCfg[last.root]

\* C5: a bootstrap answered "Continue Without Company" returns a record and
\* writes nothing: no RepoConfig at the root, GlobalConfig as it was handed
\* to the bootstrap, ignore file and notice file untouched; so the next call
\* for the same root runs the bootstrap again.
C5_ContinueWithoutCompany ==
    [][/\ (last'.op = "get_config" /\ last'.bootstrap = "continue_without") =>
              /\ DOMAIN last'.ret = ConfigFields
              /\ repoCfg' = repoCfg
              /\ ~config_exists(repoCfg'[last'.root])
              /\ globalCfg' = last'.global_in
              /\ gitignore' = gitignore
              /\ copyrightMd' = copyrightMd
       /\ (/\ last.op = "get_config"
           /\ last.bootstrap = "continue_without"
           /\ last'.op = "get_config"
           /\ last'.root = last.root) => last'.bootstrap # "none"]_vars

\* A bootstrap that was answered "Continue Without Company", with the
\* author name left blank.
C5_Witness ==
    /\ last.op = "get_config"
    /\ last.bootstrap = "continue_without"
    /\ ~config_exists(repoCfg[last.root])
    /\ last.ret.author_name = last.global_in.profiles[
                                  last.global_in.default_company].default_author_name

\* C6: whenever the bootstrap persists a RepoConfig, the ignore file of the
\* root then mentions the RepoConfig file name, whatever it was before
\* (absent, without the entry, with the entry), and an ignore file that
\* already had the entry is left as it was.
C6_IgnoreFileReferencesConfig ==
    [][(last'.op = "get_config" /\ last'.bootstrap \in {"existing", "add_new"}) =>
           /\ exists(gitignore'[last'.root])
           /\ Contains(gitignore'[last'.root], REPO_CONFIG_FILE)
           /\ (/\ exists(gitignore[last'.root])
               /\ Contains(gitignore[last'.root], REPO_CONFIG_FILE))
                  => gitignore' = gitignore]_vars

\* C7: GlobalConfig only grows: a stored profile stays, with the same field
\* values, and defaultCompany keeps its value.
C7_GlobalConfigOnlyGrows ==
    [][config_exists(globalCfg) =>
           /\ config_exists(globalCfg')
           /\ globalCfg'.default_company = globalCfg.default_company
           /\ \A k \in DOMAIN globalCfg.profiles :
                  /\ k \in DOMAIN globalCfg'.profiles
                  /\ globalCfg'.profiles[k] = globalCfg.profiles[k]]_vars

\* The directories with a marker on the way up from where the search
\* starts.  The search never looks in the filesystem root itself.
MarkedAbove(start) == {d \in gitDirs : d # <<>> /\ IsPrefix(d, start)}

\* The RepoConfig of the call is the one at the root the call resolved.
UsesRepoConfigAt(l) ==
    /\ l.bootstrap \in {"existing", "add_new"} => repoCfg[l.root] = l.ret
    /\ (l.bootstrap = "none" /\ l.root # NoPath)
           => l.ret = repoCfg[l.root]

\* C10 as stated: the root is the topmost directory with a marker among the
\* directory the search starts in and its ancestors, and the RepoConfig is
\* read from or written to that directory.
C10_TopmostRoot ==
    (last.op = "get_config" /\ last.resolved) =>
        LET marked == MarkedAbove(last.start)
        IN  /\ marked = {} => last.root = NoPath
            /\ marked # {} =>
                   /\ last.root \in marked
                   /\ \A d \in marked : Len(last.root) <= Len(d)
            /\ UsesRepoConfigAt(last)

\* C10, amended: the root is the nearest directory with a marker, searching
\* upward from the resolved parent of the target path (the filesystem root
\* is never looked at); with nested markers it is the innermost one, and
\* the RepoConfig is read from or written to that directory.
C10_NearestRoot ==
    (last.op = "get_config" /\ last.resolved) =>
        LET marked == MarkedAbove(last.start)
        IN  /\ marked = {} => last.root = NoPath
            /\ marked # {} =>
                   /\ last.root \in marked
                   /\ \A d \in marked : Len(d) <= Len(last.root)
            /\ UsesRepoConfigAt(last)

\* A bootstrap inside a repository nested in another one.
C10_Witness ==
    /\ Bootstrapped(last)
    /\ last.bootstrap # "continue_without"
    /\ Cardinality(MarkedAbove(last.start)) = 2
    /\ last.root = Inner
    /\ repoCfg[Inner] = last.ret
    /\ ~config_exists(repoCfg[Outer])

----------------------------------------------------------------------------
(* The driver                                                              *)

\* fnmatch of a name against a pattern whose only wildcard is "*"
RECURSIVE GlobMatch(_, _, _, _)
GlobMatch(pattern, i, name, j) ==
    IF i > Len(pattern) THEN j > Len(name)
    ELSE IF pattern[i] = "*"
         THEN \E k \in j..(Len(name) + 1) : GlobMatch(pattern, i + 1, name, k)
         ELSE /\ j <= Len(name)
              /\ name[j] = pattern[i]
              /\ GlobMatch(pattern, i + 1, name, j + 1)

\* any(Path(name).match(pattern) for pattern in EXCLUDE_FILE_PATTERNS)
matches_excluded_pattern(name) ==
    \E n \in 1..Len(EXCLUDE_FILE_PATTERNS) :
        GlobMatch(EXCLUDE_FILE_PATTERNS[n], 1, name, 1)

\* The exclusion test of the single-file mode
excluded_file(target_path) ==
    \/ matches_excluded_pattern(Name(target_path))
    \/ \E n \in 1..Len(EXCLUDE_FOLDERS) : \E i \in 1..Len(target_path) :
           target_path[i] = EXCLUDE_FOLDERS[n]

\* The exclusion test of the directory walk
excluded_in_walk(filepath) ==
    \/ \E n \in 1..Len(EXCLUDE_FOLDERS) : \E i \in 1..Len(filepath) :
           Lower(filepath[i]) = Lower(EXCLUDE_FOLDERS[n])
    \/ matches_excluded_pattern(Name(filepath))

is_dir(path) ==
    /\ path \notin DOMAIN fs
    /\ path = <<>> \/ \E p \in DOMAIN fs : StartsWith(p, path)

\* target_path.rglob('*'), files only
rglob_files(target_path) ==
    {p \in DOMAIN fs : p # target_path /\ StartsWith(p, target_path)}

\* The files main hands to process_file for this target
files_to_process(target_path) ==
    IF is_file(target_path)
    THEN IF excluded_file(target_path) THEN {} ELSE {target_path}
    ELSE IF is_dir(target_path)
    THEN {p \in rglob_files(target_path) : ~excluded_in_walk(p)}
    ELSE {}

\* The directory main is started in
DriverCwd == Outer

\* main with a path argument: batch mode
MainPath(target_path) ==
    IF ~(is_file(target_path) \/ is_dir(target_path))
    THEN /\ last' = [op |-> "main", mode |-> "path", target |-> target_path,
                     exit |-> 1]
         /\ calls' = {}
         /\ out' = <<>>
         /\ UNCHANGED <<fs, today, globalCfg, repoCfg, gitignore, copyrightMd,
                        gitDirs>>
    ELSE LET target == [cwd |-> DriverCwd, rel |-> target_path]
         IN  \E gin \in GlobalPrompts : \E ans \in RepoPrompts(target, gin) :
             LET r == get_config(target, gin, ans)
                 chosen == IF r.ret = EOFError THEN {}
                           ELSE files_to_process(target_path)
             IN  /\ globalCfg' = r.global
                 /\ repoCfg' = r.repo
                 /\ gitignore' = r.ignore
                 /\ copyrightMd' = r.notice
                 /\ calls' = {[mode |-> IF is_file(target_path) THEN "file"
                                        ELSE "walk",
                               path |-> p] : p \in chosen}
                 /\ fs' = [p \in DOMAIN fs |->
                              IF p \in chosen
                              THEN process_file(fs, p, r.ret, today).files[p]
                              ELSE fs[p]]
                 /\ last' = [op |-> "main", mode |-> "path",
                             target |-> target_path,
                             exit |-> IF r.ret = EOFError THEN 1 ELSE 0]
                 /\ out' = <<>>
                 /\ UNCHANGED <<today, gitDirs>>

\* main with -ft FILENAME: print the header for a file name
MainFiletype(filename) ==
    IF \/ StartsWith(Name(filename), <<".">>)
       \/ get_comment_style(filename) = SKIP_FILE_SIGNAL
    THEN /\ last' = [op |-> "main", mode |-> "filetype", target |-> filename,
                     exit |-> 0]
         /\ calls' = {}
         /\ out' = <<>>
         /\ UNCHANGED <<fs, today, globalCfg, repoCfg, gitignore, copyrightMd,
                        gitDirs>>
    ELSE LET target == [cwd |-> DriverCwd, rel |-> filename]
         IN  \E gin \in GlobalPrompts : \E ans \in RepoPrompts(target, gin) :
             LET r == get_config(target, gin, ans)
             IN  /\ globalCfg' = r.global
                 /\ repoCfg' = r.repo
                 /\ gitignore' = r.ignore
                 /\ copyrightMd' = r.notice
                 /\ calls' = {}
                 /\ out' = IF r.ret = EOFError THEN <<>>
                           ELSE generate_header(filename, r.ret, today)
                 /\ last' = [op |-> "main", mode |-> "filetype",
                             target |-> filename,
                             exit |-> IF r.ret = EOFError THEN 1 ELSE 0]
                 /\ UNCHANGED <<fs, today, gitDirs>>

----------------------------------------------------------------------------
(* SpecDriver: main run again and again over one source tree               *)

\* The tree under the current directory
DriverFiles ==
    { <<<<"m","a","i","n",".","p","y">>>>,
      <<<<"n","o","t","e","s",".","t","x","t">>>>,
      <<<<".","e","n","v">>>>,
      <<<<"b","u","i","l","d">>, <<"o","u","t",".","c">>>>,
      <<<<"B","u","i","l","d">>, <<"g","e","n",".","c">>>>,
      <<<<".","g","i","t">>, <<"h","o","o","k",".","s","h">>>>,
      <<<<".","h","i","d","d","e","n">>, <<"x",".","y","m","l">>>>,
      <<<<"s","r","c">>, <<"u","t","i","l",".","h">>>>,
      <<<<"s","r","c">>, <<".","e","s","l","i","n","t","r","c",".","j","s">>>>,
      <<<<"s","r","c">>, <<"a","p","p",".","l","o","g">>>> }

DriverTargets ==
    DriverFiles
        \cup { <<>>, <<<<"s","r","c">>>>, <<<<"b","u","i","l","d">>>>, <<<<"B","u","i","l","d">>>>,
               <<<<".","h","i","d","d","e","n">>>>, <<<<"n","o","w","h","e","r","e">>>> }

DriverConfig ==
    [company_name |-> <<"A","c","m","e">>, author_name |-> <<"J","o">>,
     author_email |-> <<"j","@","a">>]

InitDriver ==
    /\ fs = [p \in DriverFiles |-> IF Len(p) = 1 THEN <<"#","!","s","\n">> ELSE <<"x","\n">>]
    /\ today \in {d \in Dates : d.year = 2024}
    /\ globalCfg = [default_company |-> DriverConfig.company_name,
                    profiles |-> (DriverConfig.company_name :>
                        [company_name |-> DriverConfig.company_name,
                         default_author_name |-> DriverConfig.author_name,
                         default_author_email |-> DriverConfig.author_email])]
    /\ gitDirs = {Outer}
    /\ repoCfg = [d \in Dirs |-> IF d = Outer THEN DriverConfig ELSE NoRecord]
    /\ gitignore = [d \in Dirs |-> None]
    /\ copyrightMd = [d \in Dirs |-> None]
    /\ calls = {}
    /\ last = [op |-> "init"]
    /\ out = <<>>

NextDriver ==
    \/ \E t \in DriverTargets : MainPath(t)
    \/ \E f \in DriverFiles : MainFiletype(f)

SpecDriver == InitDriver /\ [][NextDriver]_vars

\* The exclusion rule: some segment equals, whatever the case, a name of the
\* excluded-folder set, or the basename matches an excluded file pattern.
Excluded(path) ==
    \/ \E i \in 1..Len(path) : \E n \in 1..Len(EXCLUDE_FOLDERS) :
           Lower(path[i]) = Lower(EXCLUDE_FOLDERS[n])
    \/ \E n \in 1..Len(EXCLUDE_FILE_PATTERNS) :
           GlobMatch(EXCLUDE_FILE_PATTERNS[n], 1, Name(path), 1)

\* C8: in the single-file mode and in the directory walk alike,
\* process_file is never called on an excluded path.
C8_ExclusionBeforeMutation == \A c \in calls : ~Excluded(c.path)
============================================================================
